---- MODULE Spec2Model ----
(***************************************************************************)
(* Model of the deployment driver of main.py: main(), the methods of       *)
(* DeploymentManager it calls, and the remote state they act on (the       *)
(* crontab of the deploying user).  One run of main() is a walk of pc      *)
(* (main's position) and dpc (deploy_script's position); the remote        *)
(* crontab and the local secrets directory persist from run to run.        *)
(*                                                                         *)
(* Text (target names, commands, crontab lines) is a sequence of tokens;   *)
(* Python's "x in s" and grep's match are the contiguous-subsequence test. *)
(* Every remote command has three outcomes: "ok" (exit status 0), "fail"   *)
(* (non-zero exit status) and "raise" (the transport raised).              *)
(***************************************************************************)
EXTENDS Naturals, Sequences, FiniteSets

VARIABLES
    pc,          \* position of main()
    dpc,         \* position of deploy_script()
    ssh,         \* self.ssh: "none", "created", "open", "closed"
    sftp,        \* self.sftp: "none", "open", "closed"
    temp_dir,    \* self.temp_dir is set (not None)
    wsExists,    \* the temporary workspace exists on disk
    script_name, \* repo_name, the target name of this run
    repo,        \* what the cloned tree holds
    idx,         \* index of the next file of the walk / of the setup command
    log,         \* the operations this run has issued, with their outcomes
    exc,         \* an exception is propagating out of main's try block
    cleaned,     \* cleanup() was called in this run
    attempts,    \* rmtree attempts made by cleanup()
    exitStatus,  \* "running", "zero" or "nonzero"
    crontab,     \* the remote crontab, a sequence of lines
    envFiles,    \* target names that have a local <env_dir>/<name>.env
    installed,   \* per target name, how many crontab pipelines have succeeded
    url,         \* args.repo_url
    declined,    \* handle_env_file found no file and the operator declined
    sleeps,      \* time.sleep calls made by cleanup()
    printed,     \* the texts this run has printed
    runners,     \* target names whose /opt/<name>/run_script.sh is uploaded
                 \* and executable
    runs         \* number of runs of main() started so far

vars == <<pc, dpc, ssh, sftp, temp_dir, wsExists, script_name, repo, idx, log,
          exc, cleaned, attempts, exitStatus, crontab, envFiles, installed, url,
          declined, sleeps, runners, printed, runs>>

\* the variables only a few steps write
Rest == <<url, declined, sleeps, runners>>

----------------------------------------------------------------------------
(* Bounds *)

MaxRuns == 2     \* consecutive runs of main() against the same host
MaxExtra == 1    \* files of the tree besides main.py, requirements.txt, cron.txt

----------------------------------------------------------------------------
(* Text *)

\* t occurs in s as a contiguous subsequence (Python's "t in s", grep's match
\* of a pattern without metacharacters)
Contains(s, t) ==
    \E i \in 0..(Len(s) - Len(t)) : \A j \in 1..Len(t) : s[i + j] = t[j]

Names == {<<"a">>, <<"a", "b">>, <<"dos2unix">>}

\* str.rstrip(chars): drop trailing characters as long as they are in chars
RECURSIVE RStripChars(_, _)
RStripChars(s, chars) ==
    IF s # <<>> /\ s[Len(s)] \in chars
    THEN RStripChars(SubSeq(s, 1, Len(s) - 1), chars)
    ELSE s

RECURSIVE Basename(_)
\* os.path.basename: what follows the last "/"
Basename(s) ==
    IF s = <<>> \/ s[Len(s)] = "/" THEN <<>>
    ELSE Append(Basename(SubSeq(s, 1, Len(s) - 1)), s[Len(s)])

\* the characters of the argument of rstrip('.git')
DotGit == <<".", "g", "i", "t">>

\* repo_name = os.path.basename(args.repo_url.rstrip('.git'))
RepoName(u) == Basename(RStripChars(u, {DotGit[k] : k \in 1..Len(DotGit)}))

\* repo_name before main computes it
NoName == <<>>

\* the repository URLs of the runs
Urls == {<<"h", "/", "a">> \o DotGit, <<"h", "/", "a", "b">>,
         <<"h", "/", "dos2unix">> \o DotGit}

IsSpace(c) == c \in {" ", "\n"}

RECURSIVE LStrip(_)
LStrip(s) == IF s # <<>> /\ IsSpace(Head(s)) THEN LStrip(Tail(s)) ELSE s

RECURSIVE RStrip(_)
RStrip(s) ==
    IF s # <<>> /\ IsSpace(s[Len(s)]) THEN RStrip(SubSeq(s, 1, Len(s) - 1)) ELSE s

\* str.strip()
Strip(s) == LStrip(RStrip(s))

\* contents of cron.txt: one schedule expression, possibly with a final newline
CronFiles == {<<"*/5 * * * *">>, <<"0 1 * * *", "\n">>}

NoRepo == [hasMain |-> FALSE, hasReq |-> FALSE, hasCron |-> FALSE,
           cron |-> <<>>, extra |-> 0]

Repos ==
    {[hasMain |-> m, hasReq |-> r, hasCron |-> FALSE, cron |-> <<>>, extra |-> e] :
        m \in BOOLEAN, r \in BOOLEAN, e \in 0..MaxExtra}
    \cup
    {[hasMain |-> m, hasReq |-> r, hasCron |-> TRUE, cron |-> c, extra |-> e] :
        m \in BOOLEAN, r \in BOOLEAN, c \in CronFiles, e \in 0..MaxExtra}

\* further files of a tree (sources, .git/...), in walk order
ExtraFiles == <<"lib.py", ".git/HEAD", ".git/config", "README.md">>

\* the files os.walk yields for the cloned tree
WalkFiles(r) ==
    (IF r.hasMain THEN <<"main.py">> ELSE <<>>)
    \o (IF r.hasReq THEN <<"requirements.txt">> ELSE <<>>)
    \o (IF r.hasCron THEN <<"cron.txt">> ELSE <<>>)
    \o SubSeq(ExtraFiles, 1, r.extra)

Outcomes == {"ok", "fail", "raise"}

Entry(op, arg, out) == [op |-> op, arg |-> arg, out |-> out]

\* run_remote_command / sftp.put / subprocess.run, as seen from outside
Issue(op, arg, out) == log' = Append(log, Entry(op, arg, out))

----------------------------------------------------------------------------
(* The remote crontab *)

RunnerPath(n) == <<"/opt/">> \o n \o <<"/run_script.sh">>

\* echo "{cron_schedule} /opt/{script_name}/run_script.sh"
CronLine(sched, n) == sched \o <<" ">> \o RunnerPath(n)

\* a pipeline that appends without filtering
GrepV_NoFilter(lines, n) == lines

RECURSIVE GrepV(_, _)
\* grep -v "{script_name}": the lines that do not mention the name
GrepV(lines, n) ==
    IF lines = <<>> THEN <<>>
    ELSE IF Contains(Head(lines), n) THEN GrepV(Tail(lines), n)
         ELSE <<Head(lines)>> \o GrepV(Tail(lines), n)

\* (crontab -l | grep -v name ; echo line) | crontab -
CronCmd(tab, sched, n) == GrepV(tab, n) \o <<CronLine(sched, n)>>

\* a crontab that already mentions a target name on two lines
EditedCrontab ==
    <<CronLine(<<"@hourly">>, <<"a">>), <<"@weekly", " ", "/usr/bin/report">>,
      CronLine(<<"@daily">>, <<"a", "b">>)>>

InitCrontabs == {<<>>, EditedCrontab}

----------------------------------------------------------------------------
(* What the program prints.  A text is a token sequence; "<stdout>",       *)
(* "<stderr>" and "<exception>" stand for text the remote host or a        *)
(* library supplies.                                                       *)

\* self.server_password, as typed at the getpass prompt
Password == "s3cret"

\* self.server_user
User == "scadaadmin"

\* echo '{self.server_password}' | sudo -S
Sudo(pw) == <<"echo '", pw, "' | sudo -S ">>

\* create_dir_cmd
CreateDirCmd(pw, n) == Sudo(pw) \o <<"mkdir -p ", "/opt/">> \o n

\* chown_cmd
ChownCmd(pw, u, n) == Sudo(pw) \o <<"chown ", u, ":", u, " ", "/opt/">> \o n

\* install_cmd
InstallCmd(pw) ==
    Sudo(pw) \o <<"apt-get update && ">> \o Sudo(pw) \o <<"apt-get install -y dos2unix">>

\* the prints around a privileged command: the command itself before it
\* runs, the result once it has returned, the failure when non-zero
PrivilegedSays(intro, cmd, what, out) ==
    {<<intro>> \o cmd}
    \cup (IF out = "raise" THEN {}
          ELSE {<<what, " result - returncode">>, <<"stdout: ", "<stdout>">>,
                <<"stderr: ", "<stderr>">>})
    \cup (IF out = "fail" THEN {<<"Failed to ", what, ": ", "<stderr>">>} ELSE {})

\* deploy_script, sudo mkdir
MkdirSays(out, n) ==
    {<<"Deploying ">> \o n}
    \cup PrivilegedSays("Creating directory with command: ",
                        CreateDirCmd(Password, n), "create directory", out)

\* deploy_script, sudo chown
ChownSays(out, n) ==
    PrivilegedSays("Setting permissions with command: ",
                   ChownCmd(Password, User, n), "set permissions", out)

\* upload_file's except branch
UploadSays(out, f) ==
    IF out = "ok" THEN {} ELSE {<<"Failed to upload ", f, ": ", "<exception>">>}

\* a failed remote command of deploy_script
FailSays(what, out) == IF out = "fail" THEN {<<what, "<stderr>">>} ELSE {}

\* a failed setup command, and the announcement of the install
SetupSays(out, cmd) ==
    IF out # "fail" THEN {}
    ELSE {<<"Failed to execute ">> \o cmd \o <<": ", "<stderr>">>}
         \cup (IF Contains(cmd, <<"dos2unix">>)
               THEN {<<"Installing dos2unix...">>} ELSE {})

\* the last print of deploy_script
DoneSays(d, n) == IF d = "retT" THEN {<<"Successfully deployed ">> \o n} ELSE {}

Say(texts) == printed' = printed \cup texts

----------------------------------------------------------------------------
(* main(), up to the call of deploy_script *)

InitEnvFiles == {{<<"a">>}}

Init ==
    /\ pc = "connect"
    /\ dpc = "idle"
    /\ ssh = "none"
    /\ sftp = "none"
    /\ temp_dir = FALSE
    /\ wsExists = FALSE
    /\ url \in Urls
    /\ script_name = NoName
    /\ repo = NoRepo
    /\ idx = 0
    /\ log = <<>>
    /\ exc = FALSE
    /\ cleaned = FALSE
    /\ attempts = 0
    /\ exitStatus = "running"
    /\ crontab \in InitCrontabs
    /\ envFiles \in InitEnvFiles
    /\ installed = [n \in Names |-> 0]
    /\ declined = FALSE
    /\ sleeps = 0
    /\ runners = {}
    /\ printed = {<<"Initializing deployment manager...">>}
    /\ runs = 1

\* a driver that goes on whatever a step did
OrExcept_Ignored(out, next) == next

\* where main goes after a call that raises on anything but success
OrExcept(out, next) == IF out = "ok" THEN next ELSE "except"

\* DeploymentManager.connect
Connect ==
    /\ pc = "connect"
    /\ \E c \in {"ok", "raise"}, s \in {"ok", "raise"} :
        /\ ssh' = IF c = "ok" THEN "open" ELSE "created"
        /\ sftp' = IF c = "ok" /\ s = "ok" THEN "open" ELSE "none"
        /\ log' = IF c = "ok"
                  THEN log \o <<Entry("connect", "", c), Entry("open_sftp", "", s)>>
                  ELSE Append(log, Entry("connect", "", c))
        /\ pc' = OrExcept(IF c = "ok" THEN s ELSE c, "verify1")
    /\ Say({<<"Establishing SSH connection...">>})
    /\ UNCHANGED <<dpc, temp_dir, wsExists, script_name, repo, idx, exc, cleaned,
                   attempts, exitStatus, crontab, envFiles, installed, Rest, runs>>

\* verify_python_version: "command -v python3.12"
Verify1 ==
    /\ pc = "verify1"
    /\ \E out \in Outcomes :
        /\ Issue("command -v python3.12", "", out)
        /\ pc' = OrExcept(out, "verify2")
    /\ Say({<<"Verifying Python version...">>})
    /\ UNCHANGED <<dpc, ssh, sftp, temp_dir, wsExists, script_name, repo, idx, exc,
                   cleaned, attempts, exitStatus, crontab, envFiles, installed, Rest, runs>>

\* verify_python_version: "python3.12 --version"
Verify2 ==
    /\ pc = "verify2"
    /\ \E out \in Outcomes :
        /\ Issue("python3.12 --version", "", out)
        /\ pc' = OrExcept(out, "clone")
        /\ Say(IF out = "ok" THEN {<<"Remote Python version: ", "<stdout>">>} ELSE {})
    /\ UNCHANGED <<dpc, ssh, sftp, temp_dir, wsExists, script_name, repo, idx, exc,
                   cleaned, attempts, exitStatus, crontab, envFiles, installed, Rest, runs>>

\* clone_repo: mkdtemp, then git clone with check=True
Clone ==
    /\ pc = "clone"
    /\ \/ \* tempfile.mkdtemp raises: self.temp_dir stays None
          /\ Issue("mkdtemp", "", "raise")
          /\ pc' = "except"
          /\ Say({<<"Cloning repository...">>})
          /\ UNCHANGED <<temp_dir, wsExists, repo>>
       \/ \E out \in Outcomes :
          /\ log' = log \o <<Entry("mkdtemp", "", "ok"), Entry("git clone", "", out)>>
          /\ temp_dir' = TRUE
          /\ wsExists' = TRUE
          /\ pc' = OrExcept(out, "check")
          /\ IF out = "ok" THEN repo' \in Repos ELSE repo' = repo
          /\ Say({<<"Cloning repository...">>}
                 \cup (IF out = "ok" THEN {<<"Repository cloned to: ", "<tmp>">>}
                       ELSE {}))
    /\ UNCHANGED <<dpc, ssh, sftp, script_name, idx, exc, cleaned, attempts,
                   exitStatus, crontab, envFiles, installed, Rest, runs>>

\* main: the test for main.py in the root of the clone
Check ==
    /\ pc = "check"
    /\ IF repo.hasMain
       THEN /\ pc' = "deploy" /\ dpc' = "mkdir" /\ script_name' = RepoName(url)
            /\ Say({<<"Checking repository structure...">>,
                    <<"Found main.py in repository root. Using repo name: ">>
                        \o RepoName(url)})
       ELSE /\ pc' = "finally" /\ dpc' = dpc /\ script_name' = script_name
            /\ Say({<<"Checking repository structure...">>,
                    <<"No main.py found in repository root!">>,
                    <<"Repository structure:">>}
                   \cup {<<WalkFiles(repo)[k]>> : k \in 1..Len(WalkFiles(repo))})
    /\ UNCHANGED <<ssh, sftp, temp_dir, wsExists, repo, idx, log, exc,
                   cleaned, attempts, exitStatus, crontab, envFiles, installed, Rest, runs>>

----------------------------------------------------------------------------
(* deploy_script *)

\* the variables deploy_script never writes
MainVars == <<pc, ssh, sftp, temp_dir, wsExists, script_name, repo, exc, cleaned,
              attempts, exitStatus, runs>>

\* the runner branch taken whatever the tree holds
HasRequirements_Always(r) == TRUE

\* "if os.path.exists(.../requirements.txt)"
HasRequirements(r) == r.hasReq

\* the crontab branch taken whatever the tree holds
HasCron_Always(r) == TRUE

\* "if os.path.exists(cron_path)"
HasCron(r) == r.hasCron

\* upload_file: False when the mkdir -p call or sftp.put raises; the exit
\* status of mkdir -p is not looked at
UploadFile(mk, put) == IF mk # "raise" /\ put = "ok" THEN "ok" ELSE "fail"

PutOutcomes == {"ok", "raise"}

\* a remote command that raised leaves deploy_script by the exception
Raised(out, next) == IF out = "raise" THEN "raise" ELSE next

\* the test of the return code of sudo mkdir
MkdirGate(out) == Raised(out, IF out # "ok" THEN "retF" ELSE "chown")

\* a chown whose return code is not tested
ChownGate_Unchecked(out) == Raised(out, "upload")

\* the test of the return code of sudo chown
ChownGate(out) == Raised(out, IF out # "ok" THEN "retF" ELSE "upload")

\* a walk that goes on after a failed upload
UploadGate_Continue(out, last) == IF last THEN "env" ELSE "upload"

\* the walk's "if not self.upload_file(...): return False"
UploadGate(out, last) ==
    IF out # "ok" THEN "retF" ELSE IF last THEN "env" ELSE "upload"

\* a declined prompt treated as a failure
DeclineResult_Fails == "fail"

\* handle_env_file when the operator declines: the final "return True"
DeclineResult == "ok"

\* "if not self.handle_env_file(...): return False"
EnvGate(out) == IF out # "ok" THEN "retF" ELSE "venv"

\* the test of the return code of the virtual-environment command
VenvGate(out) == Raised(out, IF out # "ok" THEN "retF" ELSE "runner")

\* "if not self.upload_file(runner_path, ...): return False"
RunnerGate(out) == IF out # "ok" THEN "retF" ELSE "setup"

\* the runners after a setup command on the uploaded run_script.sh of n:
\* a successful chmod +x makes it executable
RunnerSetup(cmd, out, n, cur) ==
    IF Head(cmd) = "chmod" /\ out = "ok" THEN cur \cup {n} ELSE cur

\* setup_commands of the runner script
SetupCommands(n) ==
    << <<"chmod", " +x ">> \o RunnerPath(n), <<"dos2unix", " ">> \o RunnerPath(n) >>

\* where the for loop over setup_commands goes after command i is done with
LoopNext(i, n) == IF i < Len(SetupCommands(n)) THEN "setup" ELSE "cron"

\* a setup command returned: on failure, "if 'dos2unix' in cmd" picks the
\* install branch, any other command returns False
SetupGate(out, cmd, next) ==
    Raised(out, IF out = "ok" THEN next
                ELSE IF Contains(cmd, <<"dos2unix">>) THEN "install" ELSE "retF")

\* apt-get install returned: only "returncode == 0" has a branch; with any
\* other return code the loop goes on to its next command
InstallGate(out, next) == Raised(out, IF out = "ok" THEN "retry" ELSE next)

\* the second run of the command returned
RetryGate(out, next) == Raised(out, IF out # "ok" THEN "retF" ELSE next)

\* the test of the return code of the crontab pipeline
CronGate(out) == Raised(out, IF out # "ok" THEN "retF" ELSE "retT")

\* sudo mkdir -p /opt/{script_name}
DeployMkdir ==
    /\ pc = "deploy" /\ dpc = "mkdir"
    /\ \E out \in Outcomes :
        /\ Issue("sudo mkdir", "", out)
        /\ dpc' = MkdirGate(out)
        /\ Say(MkdirSays(out, script_name))
    /\ UNCHANGED <<MainVars, idx, crontab, envFiles, installed, Rest>>

\* sudo chown user:user /opt/{script_name}
DeployChown ==
    /\ pc = "deploy" /\ dpc = "chown"
    /\ \E out \in Outcomes :
        /\ Issue("sudo chown", "", out)
        /\ dpc' = ChownGate(out)
        /\ Say(ChownSays(out, script_name))
    /\ idx' = 1
    /\ UNCHANGED <<MainVars, crontab, envFiles, installed, Rest>>

\* one file of the os.walk loop
DeployUpload ==
    /\ pc = "deploy" /\ dpc = "upload"
    /\ idx <= Len(WalkFiles(repo))
    /\ \E mk \in Outcomes, put \in PutOutcomes :
        /\ Issue("upload", WalkFiles(repo)[idx], UploadFile(mk, put))
        /\ dpc' = UploadGate(UploadFile(mk, put), idx = Len(WalkFiles(repo)))
        /\ Say(UploadSays(UploadFile(mk, put), WalkFiles(repo)[idx]))
    /\ idx' = idx + 1
    /\ UNCHANGED <<MainVars, crontab, envFiles, installed, Rest>>

\* handle_env_file and the test of its result
DeployEnv ==
    /\ pc = "deploy" /\ dpc = "env"
    /\ \/ \* the local file exists: upload it
          /\ script_name \in envFiles
          /\ \E mk \in Outcomes, put \in PutOutcomes :
              /\ Issue("upload", ".env", UploadFile(mk, put))
              /\ dpc' = EnvGate(UploadFile(mk, put))
              /\ Say({<<"Found .env file for ">> \o script_name}
                     \cup UploadSays(UploadFile(mk, put), ".env"))
          /\ declined' = FALSE
          /\ UNCHANGED envFiles
       \/ \* no local file, the operator answers y: write it, upload it
          /\ script_name \notin envFiles
          /\ envFiles' = envFiles \cup {script_name}
          /\ declined' = FALSE
          /\ \E mk \in Outcomes, put \in PutOutcomes :
              /\ Issue("upload", ".env", UploadFile(mk, put))
              /\ dpc' = EnvGate(UploadFile(mk, put))
              /\ Say({<<"No .env file found for ">> \o script_name,
                      <<"Enter your environment variables (one per line)">>,
                      <<"Created .env file at ", "<env_dir>">>}
                     \cup UploadSays(UploadFile(mk, put), ".env"))
       \/ \* no local file, the operator declines
          /\ script_name \notin envFiles
          /\ dpc' = EnvGate(DeclineResult)
          /\ declined' = TRUE
          /\ Say({<<"No .env file found for ">> \o script_name})
          /\ UNCHANGED <<envFiles, log>>
    /\ UNCHANGED <<MainVars, idx, crontab, installed, url, sleeps, runners>>

\* the requirements.txt test and the combined venv / pip command
DeployVenv ==
    /\ pc = "deploy" /\ dpc = "venv"
    /\ IF HasRequirements(repo)
       THEN \E out \in Outcomes :
              /\ Issue("venv", "", out)
              /\ dpc' = VenvGate(out)
              /\ Say(FailSays("Failed to set up virtual environment: ", out))
       ELSE dpc' = "cron" /\ UNCHANGED <<log, printed>>
    /\ UNCHANGED <<MainVars, idx, crontab, envFiles, installed, Rest>>

\* write run_script.sh and upload it
DeployRunner ==
    /\ pc = "deploy" /\ dpc = "runner"
    /\ \E mk \in Outcomes, put \in PutOutcomes :
        /\ Issue("upload", "run_script.sh", UploadFile(mk, put))
        /\ dpc' = RunnerGate(UploadFile(mk, put))
        /\ Say(UploadSays(UploadFile(mk, put), "run_script.sh"))
    /\ idx' = 1
    /\ UNCHANGED <<MainVars, crontab, envFiles, installed, url, declined, sleeps,
                   runners>>

\* "for cmd in setup_commands": run cmd
DeploySetup ==
    /\ pc = "deploy" /\ dpc = "setup"
    /\ LET cmd == SetupCommands(script_name)[idx] IN
       \E out \in Outcomes :
        /\ Issue(Head(cmd), "", out)
        /\ dpc' = SetupGate(out, cmd, LoopNext(idx, script_name))
        /\ Say(SetupSays(out, cmd))
        /\ idx' = IF dpc' \in {"setup", "cron"} THEN idx + 1 ELSE idx
        /\ runners' = RunnerSetup(cmd, out, script_name, runners)
    /\ UNCHANGED <<MainVars, crontab, envFiles, installed, url, declined, sleeps>>

\* sudo apt-get update && sudo apt-get install -y dos2unix
DeployInstall ==
    /\ pc = "deploy" /\ dpc = "install"
    /\ \E out \in Outcomes :
        /\ Issue("sudo apt-get", "", out)
        /\ dpc' = InstallGate(out, LoopNext(idx, script_name))
        /\ printed' = printed
        /\ idx' = IF dpc' \in {"setup", "cron"} THEN idx + 1 ELSE idx
    /\ UNCHANGED <<MainVars, crontab, envFiles, installed, Rest>>

\* "Try the dos2unix command again": run cmd a second time
DeployRetry ==
    /\ pc = "deploy" /\ dpc = "retry"
    /\ LET cmd == SetupCommands(script_name)[idx] IN
       \E out \in Outcomes :
        /\ Issue(Head(cmd), "retry", out)
        /\ dpc' = RetryGate(out, LoopNext(idx, script_name))
        /\ Say(FailSays("Failed to convert line endings: ", out))
        /\ idx' = IF dpc' \in {"setup", "cron"} THEN idx + 1 ELSE idx
        /\ runners' = RunnerSetup(cmd, out, script_name, runners)
    /\ UNCHANGED <<MainVars, crontab, envFiles, installed, url, declined, sleeps>>

\* the cron.txt test and the crontab pipeline
DeployCron ==
    /\ pc = "deploy" /\ dpc = "cron"
    /\ IF HasCron(repo)
       THEN \E out \in Outcomes :
              /\ Issue("crontab", "", out)
              /\ dpc' = CronGate(out)
              /\ Say(FailSays("Failed to update crontab: ", out)
                     \cup DoneSays(CronGate(out), script_name))
              /\ crontab' = IF out = "ok"
                            THEN CronCmd(crontab, Strip(repo.cron), script_name)
                            ELSE crontab
              /\ installed' = IF out = "ok"
                              THEN [installed EXCEPT ![script_name] = @ + 1]
                              ELSE installed
       ELSE /\ dpc' = "retT"
            /\ Say(DoneSays("retT", script_name))
            /\ UNCHANGED <<log, crontab, installed>>
    /\ UNCHANGED <<MainVars, idx, envFiles, url, declined, sleeps, runners>>

----------------------------------------------------------------------------
(* main(), from the return of deploy_script *)

\* retry_count of cleanup
RetryCount == 3

\* a driver that ignores what deploy_script returned
ResultGate_Ignored(d) == IF d = "raise" THEN "except" ELSE "finally"

\* "if not deployer.deploy_script(...): raise Exception"
ResultGate(d) == IF d = "retT" THEN "finally" ELSE "except"

DeployReturn ==
    /\ pc = "deploy" /\ dpc \in {"retT", "retF", "raise"}
    /\ pc' = ResultGate(dpc)
    /\ Say(IF dpc = "retF" THEN {<<"Deployment failed!">>} ELSE {})
    /\ UNCHANGED <<dpc, ssh, sftp, temp_dir, wsExists, script_name, repo, idx, log,
                   exc, cleaned, attempts, exitStatus, crontab, envFiles, installed, Rest, runs>>

\* "except Exception as e: print; raise"
Except ==
    /\ pc = "except"
    /\ exc' = TRUE
    /\ pc' = "finally"
    /\ Say({<<"An error occurred: ", "<exception>">>})
    /\ UNCHANGED <<dpc, ssh, sftp, temp_dir, wsExists, script_name, repo, idx, log,
                   cleaned, attempts, exitStatus, crontab, envFiles, installed, Rest, runs>>

\* how the process ends once the finally block is done
ExitAs(e) == IF e THEN "nonzero" ELSE "zero"

\* cleanup at the end of the try block instead of in finally
FinallyCleans_OnSuccessOnly(e) == ~e

\* the finally block: does main call cleanup
FinallyCleans(e) == TRUE

\* "finally: if deployer: deployer.cleanup()": the two closes, then the test
\* of temp_dir
Cleanup ==
    /\ pc = "finally"
    /\ IF FinallyCleans(exc)
       THEN /\ cleaned' = TRUE
            /\ sftp' = IF sftp = "open" THEN "closed" ELSE sftp
            /\ ssh' = IF ssh \in {"created", "open"} THEN "closed" ELSE ssh
            /\ IF temp_dir /\ wsExists
               THEN pc' = "rmtree" /\ exitStatus' = exitStatus
               ELSE pc' = "exit" /\ exitStatus' = ExitAs(exc)
       ELSE /\ pc' = "exit" /\ exitStatus' = ExitAs(exc)
            /\ UNCHANGED <<cleaned, sftp, ssh>>
    /\ UNCHANGED <<dpc, temp_dir, wsExists, script_name, repo, idx, log, exc,
                   attempts, crontab, envFiles, installed, Rest, printed, runs>>

\* a loop without the break after a successful rmtree
RmtreeNext_NoBreak(out, i) == IF i = RetryCount - 1 THEN "exit" ELSE "rmtree"

\* pass i of "for i in range(retry_count)": break on success; on an
\* exception warn when i is the last pass, else sleep and go round again
RmtreeNext(out, i) ==
    IF out = "ok" THEN "exit" ELSE IF i = RetryCount - 1 THEN "exit" ELSE "rmtree"

\* one pass of cleanup's "for i in range(retry_count)"
Rmtree ==
    /\ pc = "rmtree"
    /\ attempts < RetryCount
    /\ attempts' = attempts + 1
    /\ \E out \in {"ok", "raise"} :
        /\ wsExists' = (wsExists /\ out # "ok")
        /\ pc' = RmtreeNext(out, attempts)
        /\ sleeps' = IF out # "ok" /\ pc' = "rmtree" THEN sleeps + 1 ELSE sleeps
        /\ Say(IF out # "ok" /\ pc' = "exit"
               THEN {<<"Warning: Could not remove temporary directory ", "<tmp>">>}
               ELSE {})
    /\ exitStatus' = IF pc' = "exit" THEN ExitAs(exc) ELSE exitStatus
    /\ UNCHANGED <<dpc, ssh, sftp, temp_dir, script_name, repo, idx, log, exc,
                   cleaned, crontab, envFiles, installed, url, declined, runners,
                   runs>>

\* the operator starts main() again, for any target
NewRun ==
    /\ pc = "exit"
    /\ runs < MaxRuns
    /\ runs' = runs + 1
    /\ pc' = "connect"
    /\ dpc' = "idle"
    /\ ssh' = "none"
    /\ sftp' = "none"
    /\ temp_dir' = FALSE
    /\ wsExists' = FALSE
    /\ url' \in Urls
    /\ script_name' = NoName
    /\ declined' = FALSE
    /\ sleeps' = 0
    /\ repo' = NoRepo
    /\ idx' = 0
    /\ log' = <<>>
    /\ exc' = FALSE
    /\ cleaned' = FALSE
    /\ attempts' = 0
    /\ exitStatus' = "running"
    /\ printed' = {<<"Initializing deployment manager...">>}
    /\ UNCHANGED <<crontab, envFiles, installed, runners>>

Next ==
    \/ Connect
    \/ Verify1
    \/ Verify2
    \/ Clone
    \/ Check
    \/ DeployMkdir
    \/ DeployChown
    \/ DeployUpload
    \/ DeployEnv
    \/ DeployVenv
    \/ DeployRunner
    \/ DeploySetup
    \/ DeployInstall
    \/ DeployRetry
    \/ DeployCron
    \/ DeployReturn
    \/ Except
    \/ Cleanup
    \/ Rmtree
    \/ NewRun

Spec == Init /\ [][Next]_vars

----------------------------------------------------------------------------
(* Reading the log *)

Idx == 1..Len(log)

Did(op) == \E i \in Idx : log[i].op = op

DidOk(op) == \E i \in Idx : log[i].op = op /\ log[i].out = "ok"

Uploaded(f) == \E i \in Idx : log[i].op = "upload" /\ log[i].arg = f /\ log[i].out = "ok"

\* entry i is the last thing the run issued and deploy_script returned False
FatalAt(i) == i = Len(log) /\ dpc = "retF"

\* deploy_script has returned or raised
DeployOver == dpc \in {"retT", "retF", "raise"}

WalkSet == {WalkFiles(repo)[k] : k \in 1..Len(WalkFiles(repo))}

\* the crontab lines that mention target name n
Mentioning(n) == {k \in 1..Len(crontab) : Contains(crontab[k], n)}

----------------------------------------------------------------------------
(* C1 *)

\* C1: when sudo mkdir or sudo chown returns a non-zero exit status,
\* deploy_script returns False at once: that command is the last operation of
\* the run, so no file is uploaded and no later step runs.
C1_PrivilegedStepFailureAborts ==
    \A i \in Idx :
        (log[i].op \in {"sudo mkdir", "sudo chown"} /\ log[i].out = "fail")
            => FatalAt(i) /\ ~Did("upload")

C1_Witness ==
    /\ pc = "exit"
    /\ \E i \in Idx : log[i].op = "sudo chown" /\ log[i].out = "fail"

----------------------------------------------------------------------------
(* C2 *)

\* C2: every privilege-escalated command of deploy_script (sudo mkdir, sudo
\* chown, sudo apt-get install) is fatal on a non-zero exit status:
\* deploy_script returns False and nothing runs after it.
C2_EveryPrivilegedFailureIsFatal ==
    \A i \in Idx :
        (log[i].op \in {"sudo mkdir", "sudo chown", "sudo apt-get"}
         /\ log[i].out = "fail")
            => FatalAt(i)

----------------------------------------------------------------------------
(* C3 *)

\* C3: a failing first dos2unix is followed by the install and, once the tool
\* is installed, by exactly one retry; install and retry succeeding lets the
\* deployment go on, a failing retry makes deploy_script return False, and a
\* failing chmod +x returns False with no install and no retry.
C3_NormalizationFallback ==
    /\ Cardinality({i \in Idx : log[i].arg = "retry"}) <= 1
    /\ \A i \in Idx :
        /\ (log[i].op = "chmod" /\ log[i].out = "fail")
              => FatalAt(i) /\ ~Did("sudo apt-get")
        /\ (log[i].op = "dos2unix" /\ log[i].arg = "" /\ log[i].out = "fail")
              => IF i = Len(log) THEN dpc = "install"
                 ELSE log[i + 1].op = "sudo apt-get"
        /\ (log[i].op = "sudo apt-get" /\ log[i].out = "ok")
              => IF i = Len(log) THEN dpc = "retry"
                 ELSE log[i + 1].op = "dos2unix" /\ log[i + 1].arg = "retry"
        /\ (log[i].arg = "retry" /\ log[i].out = "fail") => FatalAt(i)
        /\ (log[i].arg = "retry" /\ log[i].out = "ok" /\ i = Len(log))
              => dpc \in {"setup", "cron", "retT"}

\* C3, as far as the code keeps it: for a target name that does not contain
\* "dos2unix" the fallback is as C3 states it.
C3_HoldsForOtherNames ==
    ~Contains(script_name, <<"dos2unix">>) => C3_NormalizationFallback

----------------------------------------------------------------------------
(* C4 *)

\* the provisioning step an operation of deploy_script belongs to
StepOf(e) ==
    CASE e.op = "sudo mkdir" -> 1
      [] e.op = "sudo chown" -> 2
      [] e.op = "upload" /\ e.arg \notin {".env", "run_script.sh"} -> 3
      [] e.op = "upload" /\ e.arg = ".env" -> 4
      [] e.op = "venv" -> 5
      [] e.op \in {"chmod", "dos2unix", "sudo apt-get"} -> 6
      [] e.op = "upload" /\ e.arg = "run_script.sh" -> 6
      [] e.op = "crontab" -> 7
      [] OTHER -> 0

\* step k has completed successfully (a step that does not apply has)
StepDone(k) ==
    CASE k = 1 -> DidOk("sudo mkdir")
      [] k = 2 -> DidOk("sudo chown")
      [] k = 3 -> \A f \in WalkSet : Uploaded(f)
      [] k = 4 -> ~\E i \in Idx : log[i].arg = ".env" /\ log[i].out # "ok"
      [] k = 5 -> repo.hasReq => DidOk("venv")
      [] k = 6 -> repo.hasReq =>
                    Uploaded("run_script.sh") /\ DidOk("chmod") /\ DidOk("dos2unix")
      [] k = 7 -> repo.hasCron => DidOk("crontab")

\* C4: the steps run in forward order, a step starts only when every earlier
\* step has completed successfully, and deploy_script returns True only when
\* every applicable step has.
C4_StrictForwardOrder ==
    /\ \A i, j \in Idx :
        (i < j /\ StepOf(log[i]) > 0) => StepOf(log[i]) <= StepOf(log[j])
    /\ \A i \in Idx : \A k \in 1..7 : k < StepOf(log[i]) => StepDone(k)
    /\ dpc = "retT" => \A k \in 1..7 : StepDone(k)

----------------------------------------------------------------------------
(* C5 *)

\* C5: whichever way main ends (success, a failed step, an exception), it
\* ends after cleanup ran: both handles closed and, when a workspace was
\* made, its removal tried.
C5_CleanupOnEveryExit ==
    pc = "exit" =>
        /\ cleaned
        /\ ssh = "closed"
        /\ sftp # "open"
        /\ temp_dir => attempts >= 1

C5_Witness ==
    /\ pc = "exit"
    /\ dpc = "raise"
    /\ cleaned /\ ssh = "closed" /\ sftp = "closed" /\ ~wsExists

----------------------------------------------------------------------------
(* C6 *)

\* a step of the run failed: connect, the runtime check, the clone, or
\* deploy_script (returned False or raised)
FailureSeen ==
    \/ \E i \in Idx :
         /\ log[i].op \in {"connect", "open_sftp", "command -v python3.12",
                           "python3.12 --version", "mkdtemp", "git clone"}
         /\ log[i].out # "ok"
    \/ dpc \in {"retF", "raise"}

\* C6: a run in which a step failed ends with a non-zero status, and no run
\* ends before cleanup has run.
C6_FailurePropagatesAfterCleanup ==
    /\ (pc = "exit" /\ FailureSeen) => exitStatus = "nonzero"
    /\ exitStatus # "running" => cleaned

C6_Witness == pc = "exit" /\ dpc = "retF" /\ exitStatus = "nonzero" /\ cleaned

----------------------------------------------------------------------------
(* C7 *)

\* C7: once the crontab pipeline of a run has succeeded, the crontab holds
\* exactly one line that mentions the run's target name, the new one,
\* however many lines mentioned it before and however often the target was
\* deployed.
C7_OneCrontabLinePerTarget ==
    DidOk("crontab") =>
        /\ Cardinality(Mentioning(script_name)) = 1
        /\ crontab[Len(crontab)] = CronLine(Strip(repo.cron), script_name)

\* the second scheduled deployment of the same target
C7_Witness ==
    /\ DidOk("crontab")
    /\ installed[script_name] = 2
    /\ Len(crontab) >= 2

----------------------------------------------------------------------------
(* C8 *)

\* C8: the first upload_file of the walk that returns False ends the
\* deployment: nothing is uploaded or run after it and deploy_script returns
\* False.
C8_FirstUploadFailureAborts ==
    \A i \in Idx :
        (log[i].op = "upload" /\ log[i].arg \in WalkSet /\ log[i].out = "fail")
            => FatalAt(i)

C8_Witness ==
    /\ pc = "exit"
    /\ Len(WalkFiles(repo)) >= 3
    /\ log[Len(log)] = Entry("upload", "requirements.txt", "fail")

----------------------------------------------------------------------------
(* C9 *)

\* C9: without requirements.txt no virtual-environment command and no runner
\* step (upload of run_script.sh, chmod, dos2unix, install) is issued.
C9_NoManifestNoVenvNoRunner ==
    ~repo.hasReq =>
        /\ ~Did("venv") /\ ~Did("chmod") /\ ~Did("dos2unix") /\ ~Did("sudo apt-get")
        /\ ~\E i \in Idx : log[i].arg = "run_script.sh"

\* ... and such a deployment succeeds
C9_Witness ==
    /\ pc = "exit" /\ exitStatus = "zero"
    /\ repo.hasMain /\ ~repo.hasReq /\ dpc = "retT"

----------------------------------------------------------------------------
(* C10 *)

\* C10: with main.py and requirements.txt but no cron.txt, no crontab command
\* is issued; when every command and upload succeeded, deploy_script has run
\* the directory, ownership, upload, virtual-environment and runner steps and
\* returns True.
C10_NoScheduleFile ==
    (repo.hasMain /\ repo.hasReq /\ ~repo.hasCron) =>
        /\ ~Did("crontab")
        /\ (DeployOver /\ \A i \in Idx : log[i].out = "ok") =>
              /\ dpc = "retT"
              /\ \A k \in 1..6 : StepDone(k)
              /\ Did("sudo mkdir") /\ Did("sudo chown") /\ Did("venv")
              /\ Did("chmod") /\ Did("dos2unix")

C10_Witness ==
    /\ repo.hasMain /\ repo.hasReq /\ ~repo.hasCron
    /\ pc = "exit" /\ dpc = "retT" /\ exitStatus = "zero"
    /\ \A i \in Idx : log[i].out = "ok"
    /\ Uploaded("run_script.sh")

----------------------------------------------------------------------------
(* C11 *)

\* C11: when the local secrets file is absent and the operator declines,
\* handle_env_file uploads and creates nothing and the deployment goes on:
\* deploy_script fails only if a later step fails.
C11_DeclinedSecretsIsNoFailure ==
    declined =>
        /\ script_name \notin envFiles
        /\ ~\E i \in Idx : log[i].arg = ".env"
        /\ dpc \notin {"upload", "env"}
        /\ dpc \in {"retF", "raise"} =>
              /\ StepOf(log[Len(log)]) > 4
              /\ log[Len(log)].out # "ok"

C11_Witness ==
    /\ declined /\ pc = "exit" /\ dpc = "retT" /\ exitStatus = "zero"
    /\ script_name \notin envFiles

----------------------------------------------------------------------------
(* C12 *)

\* C12: no text the program prints contains the remote password.
C12_PasswordNeverPrinted == \A t \in printed : ~Contains(t, <<Password>>)

----------------------------------------------------------------------------
(* C13 *)

\* C13: between operations the two handles are both open or both not open,
\* they are open only after connect, and once cleanup has run they are not
\* open and main is past every remote command and upload.
C13_SessionInvariant ==
    /\ (ssh = "open") <=> (sftp = "open")
    /\ ssh = "open" => DidOk("connect")
    /\ cleaned => ssh # "open" /\ sftp # "open" /\ pc \in {"rmtree", "exit"}

----------------------------------------------------------------------------
(* C14 *)

DriverOps == {"connect", "open_sftp", "command -v python3.12",
              "python3.12 --version", "mkdtemp", "git clone"}

\* operation op succeeded before entry i
OkBefore(op, i) == \E j \in 1..(i - 1) : log[j].op = op /\ log[j].out = "ok"

\* C14: connect, runtime check, clone and provisioning run in that order,
\* each only after the one before succeeded, and a failed driver step is the
\* last operation of the run.
C14_DriverOrder ==
    \A i \in Idx :
        /\ log[i].op \in {"command -v python3.12", "python3.12 --version"}
              => OkBefore("connect", i) /\ OkBefore("open_sftp", i)
        /\ log[i].op = "python3.12 --version" => OkBefore("command -v python3.12", i)
        /\ log[i].op \in {"mkdtemp", "git clone"}
              => OkBefore("command -v python3.12", i)
                 /\ OkBefore("python3.12 --version", i)
        /\ StepOf(log[i]) > 0 => OkBefore("git clone", i)
        /\ (log[i].op \in DriverOps /\ log[i].out # "ok") => i = Len(log)

C14_Witness ==
    /\ pc = "exit"
    /\ log[Len(log)] = Entry("python3.12 --version", "", "fail")

----------------------------------------------------------------------------
(* C15 *)

\* C15: cleanup tries to remove the workspace at most RetryCount times,
\* stops at the first success, sleeps after every failed attempt but the
\* last, after the last only warns, and leaves the exit status as it was;
\* without a workspace it tries nothing.
C15_BoundedWorkspaceRemoval ==
    /\ attempts <= RetryCount
    /\ ~temp_dir => attempts = 0
    /\ pc = "rmtree" => attempts < RetryCount /\ wsExists /\ sleeps = attempts
    /\ (temp_dir /\ ~wsExists) => pc = "exit" /\ sleeps = attempts - 1
    /\ (pc = "exit" /\ wsExists) =>
          /\ attempts = RetryCount
          /\ sleeps = RetryCount - 1
          /\ <<"Warning: Could not remove temporary directory ", "<tmp>">> \in printed
    /\ pc = "exit" => exitStatus = ExitAs(exc)

C15_Witness ==
    /\ pc = "exit" /\ wsExists /\ attempts = RetryCount
    /\ exitStatus = "zero" /\ dpc = "retT"

----------------------------------------------------------------------------
(* C16 *)

\* C16: every target for which a crontab entry was installed has its runner
\* script on the remote host, uploaded and executable.
C16_CrontabEntryHasRunner == \A n \in Names : installed[n] > 0 => n \in runners

----------------------------------------------------------------------------
(* C17 *)

\* line l invokes the runner of target n
LineOf(l, n) == Contains(l, RunnerPath(n))

\* C17: a step leaves every crontab line of a target other than the run's
\* own in the crontab, unchanged.
C17_OtherTargetsUntouched ==
    [][\A k \in 1..Len(crontab) :
          (/\ \E b \in Names \ {script_name} : LineOf(crontab[k], b)
           /\ ~LineOf(crontab[k], script_name))
             => \E j \in 1..Len(crontab') : crontab'[j] = crontab[k]]_vars

----------------------------------------------------------------------------
(* C18 *)

\* C18: a run that ends with status zero has called deploy_script and got
\* True from it.
C18_ZeroExitMeansDeployed == (pc = "exit" /\ exitStatus = "zero") => dpc = "retT"

----------------------------------------------------------------------------
(* C19: the target name as a function of the URL, on its own *)

MaxBaseLen == 3

\* the characters of a base name: those of ".git" and one other
BaseChars == {"a", ".", "g", "i", "t"}

BaseNames == UNION {[1..n -> BaseChars] : n \in 1..MaxBaseLen}

\* https://host/<base> and https://host/<base>.git
AllUrls == {<<"h", "/">> \o b \o sfx : b \in BaseNames, sfx \in {<<>>, DotGit}}

NameInit ==
    /\ url \in AllUrls
    /\ pc = "name"
    /\ dpc = "idle"
    /\ ssh = "none"
    /\ sftp = "none"
    /\ temp_dir = FALSE
    /\ wsExists = FALSE
    /\ script_name = NoName
    /\ repo = NoRepo
    /\ idx = 0
    /\ log = <<>>
    /\ exc = FALSE
    /\ cleaned = FALSE
    /\ attempts = 0
    /\ exitStatus = "running"
    /\ crontab = <<>>
    /\ envFiles = {}
    /\ installed = [n \in Names |-> 0]
    /\ declined = FALSE
    /\ sleeps = 0
    /\ runners = {}
    /\ printed = {}
    /\ runs = 1

\* main: repo_name = os.path.basename(args.repo_url.rstrip('.git'))
ComputeName ==
    /\ pc = "name"
    /\ script_name' = RepoName(url)
    /\ pc' = "named"
    /\ UNCHANGED <<dpc, ssh, sftp, temp_dir, wsExists, repo, idx, log, exc, cleaned,
                   attempts, exitStatus, crontab, envFiles, installed, Rest,
                   printed, runs>>

SpecName == NameInit /\ [][ComputeName]_vars

\* the base name of u without one trailing ".git"
ExpectedName(u) ==
    LET b == Basename(u) IN
    IF Len(b) >= Len(DotGit) /\ SubSeq(b, Len(b) - Len(DotGit) + 1, Len(b)) = DotGit
    THEN SubSeq(b, 1, Len(b) - Len(DotGit))
    ELSE b

\* C19: the computed target name is the URL's base name, less one trailing
\* ".git" when there is one.
C19_NameIsBasenameLessDotGit == pc = "named" => script_name = ExpectedName(url)

====
